---- MODULE Spec2Model ----
(***************************************************************************)
(* Model of src/program-rust/src/lib.rs: the helloworld on-chain program.  *)
(* process_instruction is a pure function of the accounts the host hands   *)
(* in; the host commits the account changes of a call that returned Ok and *)
(* discards those of a call that returned an error.                        *)
(***************************************************************************)
EXTENDS Integers, Sequences, FiniteSets, TLC

\* ------------------------------------------------------------------ bounds
MaxAccounts == 5        \* longest account list handed to one call
MaxCalls == 2           \* calls per behaviour
LongList == 13          \* one longer account list: payer, system, 11 others

\* ------------------------------------------------------- program constants
LIMB == 65536                  \* a u32 is kept as two 16-bit limbs, hi and lo
COUNTER_BYTES == 4             \* borsh layout of GreetingAccount
REQUIRED_ACCOUNTS == 4         \* four next_account_info calls
AMOUNT == 1000000000           \* let amount = 1_000_000_000

program_id == "Prog"
SYSTEM_PROGRAM_ID == "Sys"
OTHER_OWNER == "Loader"

Keys == {"K1", "K2", "K3", SYSTEM_PROGRAM_ID}

\* owner of every account of the ledger: K3 is the one the program owns
OwnerOf(k) ==
    IF k = "K3" THEN program_id
    ELSE IF k = SYSTEM_PROGRAM_ID THEN OTHER_OWNER
    ELSE SYSTEM_PROGRAM_ID

\* ------------------------------------------------------------- byte codecs
RECURSIVE FromLE(_)
\* u32::from_le_bytes / borsh read of an unsigned integer
FromLE(bytes) ==
    IF bytes = <<>> THEN 0
    ELSE Head(bytes) + 256 * FromLE(Tail(bytes))

RECURSIVE ToLE(_, _)
\* borsh write of an unsigned integer on n bytes, little endian
ToLE(v, n) ==
    IF n = 0 THEN <<>>
    ELSE <<v % 256>> \o ToLE(v \div 256, n - 1)

\* a u32 value, exact on its 32 bits: hi * 65536 + lo
U32(n) == [hi |-> (n \div LIMB) % LIMB, lo |-> n % LIMB]

\* u32::deserialize: four bytes, little endian
u32_from_le(bytes) ==
    [hi |-> FromLE(SubSeq(bytes, 3, 4)), lo |-> FromLE(SubSeq(bytes, 1, 2))]

\* u32::serialize: four bytes, little endian
u32_to_le(v) == ToLE(v.lo, 2) \o ToLE(v.hi, 2)

\* try_from_slice without the check that no byte is left over
try_from_slice_Prefix(buf) ==
    IF Len(buf) < COUNTER_BYTES
    THEN [ok |-> FALSE, counter |-> U32(0)]
    ELSE [ok |-> TRUE, counter |-> u32_from_le(SubSeq(buf, 1, COUNTER_BYTES))]

\* GreetingAccount::try_from_slice: Err on a short read and on bytes left over
try_from_slice(buf) ==
    IF Len(buf) < COUNTER_BYTES
    THEN [ok |-> FALSE, counter |-> U32(0)]
    ELSE IF Len(buf) > COUNTER_BYTES
    THEN [ok |-> FALSE, counter |-> U32(0)]
    ELSE [ok |-> TRUE, counter |-> u32_from_le(buf)]

\* GreetingAccount::serialize into &mut data[..]: overwrites the first bytes
serialize(counter, buf) ==
    IF Len(buf) < COUNTER_BYTES
    THEN [ok |-> FALSE, buf |-> buf]
    ELSE [ok |-> TRUE,
          buf |-> u32_to_le(counter)
                    \o SubSeq(buf, COUNTER_BYTES + 1, Len(buf))]

\* ------------------------------------------------------------------ events
\* what one call does, in program order: checks evaluated, msg! lines,
\* transfer requests, reads and writes of the data buffer
Ev(kind, tag) ==
    [kind |-> kind, tag |-> tag, bytes |-> <<>>, from |-> "", to |-> "",
     amount |-> 0]

MsgData(bytes) ==
    [kind |-> "msg", tag |-> "Instruction data", bytes |-> bytes,
     from |-> "", to |-> "", amount |-> 0]

InvokeEv(from, to, amount) ==
    [kind |-> "invoke", tag |-> "transfer", bytes |-> <<>>, from |-> from,
     to |-> to, amount |-> amount]

\* ------------------------------------------------------- the call context
\* The locals of one run of process_instruction: its inputs, the accounts it
\* has bound so far, its view of balances and data, and the result once it
\* has returned ("Running" until then).
NewCall(accounts, is_signer, instruction_data, host_ok, oc, L, D) ==
    [accounts |-> accounts, is_signer |-> is_signer,
     instruction_data |-> instruction_data, host_ok |-> host_ok,
     overflow_checks |-> oc,
     pre_lamports |-> L, pre_data |-> D,
     lamports |-> L, data |-> D,
     payer |-> "", receiver |-> "", program |-> "", system |-> "",
     result |-> "Running", events |-> <<>>]

\* `?` and `return Err(..)`: what follows runs only while nothing has returned
Running(c) == c.result = "Running"

Emit(c, e) == [c EXCEPT !.events = @ \o <<e>>]

Return(c, r) == [c EXCEPT !.result = r]

\* next_account_info(accounts_iter): the i-th account, or NotEnoughAccountKeys
next_account_info(accounts, i) ==
    IF i <= Len(accounts)
    THEN [ok |-> TRUE, key |-> accounts[i]]
    ELSE [ok |-> FALSE, key |-> ""]

\* msg!("Instruction data: ..")
LogInstruction(c) == Emit(c, MsgData(c.instruction_data))

\* the four next_account_info(..)? calls and the msg! that prints the keys
TakeAccounts(c) ==
    LET a1 == next_account_info(c.accounts, 1)
        a2 == next_account_info(c.accounts, 2)
        a3 == next_account_info(c.accounts, 3)
        a4 == next_account_info(c.accounts, 4)
        c1 == Emit(c, Ev("check", "accounts"))
    IN  IF ~(a1.ok /\ a2.ok /\ a3.ok /\ a4.ok)
        THEN Return(c1, "NotEnoughAccountKeys")
        ELSE Emit([c1 EXCEPT !.payer = a1.key, !.receiver = a2.key,
                             !.program = a3.key, !.system = a4.key],
                  Ev("msg", "accounts"))

\* the signer check left out
CheckSigner_Skipped(c) == Emit(c, Ev("check", "signer"))

\* if !payer_account.is_signer { return Err(MissingRequiredSignature) }
CheckSigner(c) ==
    LET c1 == Emit(c, Ev("check", "signer"))
    IN  IF ~c.is_signer
        THEN Return(c1, "MissingRequiredSignature")
        ELSE c1

\* the owner check left out
CheckOwner_Skipped(c) == Emit(c, Ev("check", "owner"))

\* if program_account.owner != program_id { msg!; return Err(IncorrectProgramId) }
CheckOwner(c) ==
    LET c1 == Emit(c, Ev("check", "owner"))
    IN  IF OwnerOf(c.program) # program_id
        THEN Return(Emit(c1, Ev("msg", "bad owner")), "IncorrectProgramId")
        ELSE c1

\* the system account check left out
CheckSystem_Skipped(c) == Emit(c, Ev("check", "system"))

\* if system_account.key.ne(&SYSTEM_PROGRAM_ID) { msg!; return Err(IncorrectProgramId) }
CheckSystem(c) ==
    LET c1 == Emit(c, Ev("check", "system"))
    IN  IF c.system # SYSTEM_PROGRAM_ID
        THEN Return(Emit(c1, Ev("msg", "bad system")), "IncorrectProgramId")
        ELSE c1

\* What the system program requires of a transfer besides the caller's
\* signature: a system-owned source without data that holds the amount.
HostCanTransfer(c, from, amount) ==
    /\ OwnerOf(from) = SYSTEM_PROGRAM_ID
    /\ c.data[from] = <<>>
    /\ c.lamports[from] >= amount

\* system_instruction::transfer applied by the host
ApplyTransfer(L, from, to, amount) ==
    LET debited == [L EXCEPT ![from] = @ - amount]
    IN  [debited EXCEPT ![to] = @ + amount]

\* the transfer with source and destination exchanged
Transfer_Reversed(c) ==
    LET amount == AMOUNT
        c1 == Emit(c, InvokeEv(c.receiver, c.payer, amount))
    IN  IF c.host_ok /\ HostCanTransfer(c, c.receiver, amount)
        THEN Emit([c1 EXCEPT !.lamports =
                      ApplyTransfer(c.lamports, c.receiver, c.payer, amount)],
                  Ev("msg", "transfer done"))
        ELSE Return(c1, "HostError")

\* the transfer with the amount decoded from the first 8 payload bytes
Transfer_FromPayload(c) ==
    IF Len(c.instruction_data) < 8
    THEN Return(c, "InvalidInstructionData")
    ELSE LET amount == FromLE(SubSeq(c.instruction_data, 1, 8))
             c1 == Emit(c, InvokeEv(c.payer, c.receiver, amount))
         IN  IF c.host_ok /\ HostCanTransfer(c, c.payer, amount)
             THEN Emit([c1 EXCEPT !.lamports =
                           ApplyTransfer(c.lamports, c.payer, c.receiver, amount)],
                       Ev("msg", "transfer done"))
             ELSE Return(c1, "HostError")

\* the transfer with the result of invoke dropped instead of propagated
Transfer_Unchecked(c) ==
    LET amount == AMOUNT
        c1 == Emit(c, InvokeEv(c.payer, c.receiver, amount))
    IN  IF c.host_ok /\ HostCanTransfer(c, c.payer, amount)
        THEN Emit([c1 EXCEPT !.lamports =
                      ApplyTransfer(c.lamports, c.payer, c.receiver, amount)],
                  Ev("msg", "transfer done"))
        ELSE Emit(c1, Ev("msg", "transfer done"))

\* let amount = 1_000_000_000; invoke(&transfer(payer, receiver, amount), ..)?; msg!
Transfer(c) ==
    LET amount == AMOUNT
        c1 == Emit(c, InvokeEv(c.payer, c.receiver, amount))
    IN  IF c.host_ok /\ HostCanTransfer(c, c.payer, amount)
        THEN Emit([c1 EXCEPT !.lamports =
                      ApplyTransfer(c.lamports, c.payer, c.receiver, amount)],
                  Ev("msg", "transfer done"))
        ELSE Return(c1, "HostError")

\* greeting_account.counter += 1 on a u32: a build with overflow checks
\* panics at the maximum, a build without them wraps to 0
Increment(counter, oc) ==
    IF counter.lo + 1 < LIMB
    THEN [ok |-> TRUE, counter |-> [counter EXCEPT !.lo = @ + 1]]
    ELSE IF counter.hi + 1 < LIMB
    THEN [ok |-> TRUE, counter |-> [hi |-> counter.hi + 1, lo |-> 0]]
    ELSE IF oc
    THEN [ok |-> FALSE, counter |-> counter]
    ELSE [ok |-> TRUE, counter |-> [hi |-> 0, lo |-> 0]]

\* the greeting with the incremented record never written back
Greet_NotStored(c) ==
    LET rd == try_from_slice(c.data[c.program])
        c1 == Emit(c, Ev("read", "try_from_slice"))
        inc == Increment(rd.counter, c.overflow_checks)
    IN  IF ~rd.ok THEN Return(c1, "BorshIoError")
        ELSE IF ~inc.ok THEN Return(c1, "Panic")
        ELSE Return(Emit(c1, Ev("msg", "Greeted")), "Ok")

\* the greeting with the record written into the receiver's data buffer
Greet_WrongAccount(c) ==
    LET buf == c.data[c.program]
        rd == try_from_slice(buf)
        c1 == Emit(c, Ev("read", "try_from_slice"))
        inc == Increment(rd.counter, c.overflow_checks)
        wr == serialize(inc.counter, buf)
    IN  IF ~rd.ok THEN Return(c1, "BorshIoError")
        ELSE IF ~inc.ok THEN Return(c1, "Panic")
        ELSE IF ~wr.ok THEN Return(Emit(c1, Ev("write", "serialize")), "BorshIoError")
        ELSE Return(Emit(Emit([c1 EXCEPT !.data[c.receiver] = wr.buf],
                              Ev("write", "serialize")),
                         Ev("msg", "Greeted")),
                    "Ok")

\* try_from_slice(&program_account.data.borrow())?; counter += 1;
\* serialize(&mut &mut program_account.data.borrow_mut()[..])?; msg!
Greet(c) ==
    LET buf == c.data[c.program]
        rd == try_from_slice(buf)
        c1 == Emit(c, Ev("read", "try_from_slice"))
        inc == Increment(rd.counter, c.overflow_checks)
        wr == serialize(inc.counter, buf)
    IN  IF ~rd.ok THEN Return(c1, "BorshIoError")
        ELSE IF ~inc.ok THEN Return(c1, "Panic")
        ELSE IF ~wr.ok THEN Return(Emit(c1, Ev("write", "serialize")), "BorshIoError")
        ELSE Return(Emit(Emit([c1 EXCEPT !.data[c.program] = wr.buf],
                              Ev("write", "serialize")),
                         Ev("msg", "Greeted")),
                    "Ok")

\* process_instruction with the owner check ahead of the signer check
process_instruction_OwnerFirst(c) ==
    LET logged == LogInstruction(c)
        taken == IF Running(logged) THEN TakeAccounts(logged) ELSE logged
        owned == IF Running(taken) THEN CheckOwner(taken) ELSE taken
        signed == IF Running(owned) THEN CheckSigner(owned) ELSE owned
        system == IF Running(signed) THEN CheckSystem(signed) ELSE signed
        paid == IF Running(system) THEN Transfer(system) ELSE system
    IN  IF Running(paid) THEN Greet(paid) ELSE paid

\* process_instruction with the transfer ahead of the system account check
process_instruction_TransferEarly(c) ==
    LET logged == LogInstruction(c)
        taken == IF Running(logged) THEN TakeAccounts(logged) ELSE logged
        signed == IF Running(taken) THEN CheckSigner(taken) ELSE taken
        owned == IF Running(signed) THEN CheckOwner(signed) ELSE signed
        paid == IF Running(owned) THEN Transfer(owned) ELSE owned
        system == IF Running(paid) THEN CheckSystem(paid) ELSE paid
    IN  IF Running(system) THEN Greet(system) ELSE system

\* process_instruction with the signer check ahead of the account taking
process_instruction_SignerFirst(c) ==
    LET logged == LogInstruction(c)
        signed == IF Running(logged) THEN CheckSigner(logged) ELSE logged
        taken == IF Running(signed) THEN TakeAccounts(signed) ELSE signed
        owned == IF Running(taken) THEN CheckOwner(taken) ELSE taken
        system == IF Running(owned) THEN CheckSystem(owned) ELSE owned
        paid == IF Running(system) THEN Transfer(system) ELSE system
    IN  IF Running(paid) THEN Greet(paid) ELSE paid

\* process_instruction with the system account check ahead of the owner check
process_instruction_SystemFirst(c) ==
    LET logged == LogInstruction(c)
        taken == IF Running(logged) THEN TakeAccounts(logged) ELSE logged
        signed == IF Running(taken) THEN CheckSigner(taken) ELSE taken
        system == IF Running(signed) THEN CheckSystem(signed) ELSE signed
        owned == IF Running(system) THEN CheckOwner(system) ELSE system
        paid == IF Running(owned) THEN Transfer(owned) ELSE owned
    IN  IF Running(paid) THEN Greet(paid) ELSE paid

\* process_instruction with the record read ahead of the transfer
process_instruction_ReadFirst(c) ==
    LET logged == LogInstruction(c)
        taken == IF Running(logged) THEN TakeAccounts(logged) ELSE logged
        signed == IF Running(taken) THEN CheckSigner(taken) ELSE taken
        owned == IF Running(signed) THEN CheckOwner(signed) ELSE signed
        system == IF Running(owned) THEN CheckSystem(owned) ELSE owned
        read == IF Running(system)
                     /\ ~try_from_slice(system.data[system.program]).ok
                THEN Return(Emit(system, Ev("read", "try_from_slice")),
                            "BorshIoError")
                ELSE system
        paid == IF Running(read) THEN Transfer(read) ELSE read
    IN  IF Running(paid) THEN Greet(paid) ELSE paid

\* pub fn process_instruction(program_id, accounts, _instruction_data)
process_instruction(c) ==
    LET logged == LogInstruction(c)
        taken == IF Running(logged) THEN TakeAccounts(logged) ELSE logged
        signed == IF Running(taken) THEN CheckSigner(taken) ELSE taken
        owned == IF Running(signed) THEN CheckOwner(signed) ELSE signed
        system == IF Running(owned) THEN CheckSystem(owned) ELSE owned
        paid == IF Running(system) THEN Transfer(system) ELSE system
    IN  IF Running(paid) THEN Greet(paid) ELSE paid

\* ------------------------------------------------------------ the machine
VARIABLES
    lamports,           \* ledger: balance of every account
    data,               \* ledger: data buffer of every account
    overflow_checks,    \* whether the build traps on integer overflow
    pc,                 \* "idle", or "returned" while the host holds a result
    call,               \* the context of the last run of process_instruction
    calls,              \* runs so far
    ok_calls,           \* runs so far that returned Ok
    ok_transfers,       \* transfer requests issued by the runs that returned Ok
    data0               \* the data buffers at the start

vars == <<lamports, data, overflow_checks, pc, call, calls, ok_calls,
          ok_transfers, data0>>

\* data buffers the greeted account may hold at the start: counters around
\* zero, a limb carry and the u32 maximum, and buffers of a wrong length
InitBuffers ==
    { <<0, 0, 0, 0>>, <<255, 255, 0, 0>>, <<254, 255, 255, 255>>,
      <<255, 255, 255, 255>>, <<>>, <<0, 0, 0>>, <<0, 0, 0, 0, 0>> }

\* instruction payloads: empty, shorter than a u64, a little-endian u64
Payloads == { <<>>, <<1, 2>>, <<3, 0, 0, 0, 0, 0, 0, 0>> }

\* the keys a call may put at each position of its account list: the key the
\* role expects and keys that break the role or alias another position
Candidates(i) ==
    IF i = 1 THEN {"K1", "K3"}
    ELSE IF i = 2 THEN {"K2", "K1", "K3", SYSTEM_PROGRAM_ID}
    ELSE IF i = 3 THEN {"K3", "K1"}
    ELSE IF i = 4 THEN {SYSTEM_PROGRAM_ID, "K2"}
    ELSE {"K1"}

\* the lengths of the account lists: none to MaxAccounts, and LongList
AccountCounts == (0..MaxAccounts) \cup {LongList}

RECURSIVE ListsOf(_)
\* the account lists of n accounts, each position holding one of its candidates
ListsOf(n) ==
    IF n = 0 THEN {<<>>}
    ELSE { Append(l, k) : l \in ListsOf(n - 1), k \in Candidates(n) }

\* the account lists a call may be given
AccountLists == UNION { ListsOf(n) : n \in AccountCounts }

InitLamports ==
    [k \in Keys |-> IF k = "K1" THEN 2 * AMOUNT ELSE IF k = "K2" THEN 5 ELSE 1]

Idle == NewCall(<<>>, FALSE, <<>>, FALSE, FALSE, InitLamports,
                [k \in Keys |-> <<>>])

Init ==
    /\ lamports = InitLamports
    /\ \E b \in InitBuffers :
          data = [k \in Keys |-> IF k = "K3" THEN b
                                 ELSE IF k = "K2" THEN <<9>> ELSE <<>>]
    /\ overflow_checks \in BOOLEAN
    /\ pc = "idle"
    /\ call = Idle
    /\ calls = 0
    /\ ok_calls = 0
    /\ ok_transfers = 0
    /\ data0 = data

\* the host runs the program on one instruction
Call(accounts, is_signer, instruction_data, host_ok) ==
    /\ pc = "idle"
    /\ calls < MaxCalls
    /\ call' = process_instruction(
                  NewCall(accounts, is_signer, instruction_data, host_ok,
                          overflow_checks, lamports, data))
    /\ pc' = "returned"
    /\ calls' = calls + 1
    /\ UNCHANGED <<lamports, data, overflow_checks, ok_calls, ok_transfers,
                   data0>>

Invokes(events) == SelectSeq(events, LAMBDA e : e.kind = "invoke")

\* the call returned Ok: the host commits its account changes
HostCommit ==
    /\ pc = "returned"
    /\ call.result = "Ok"
    /\ lamports' = call.lamports
    /\ data' = call.data
    /\ ok_calls' = ok_calls + 1
    /\ ok_transfers' = ok_transfers + Len(Invokes(call.events))
    /\ pc' = "idle"
    /\ call' = Idle
    /\ UNCHANGED <<overflow_checks, calls, data0>>

\* the call returned an error or trapped: the host discards its changes and
\* the call's context is gone
HostRollback ==
    /\ pc = "returned"
    /\ call.result # "Ok"
    /\ pc' = "idle"
    /\ call' = Idle
    /\ UNCHANGED <<lamports, data, overflow_checks, calls, ok_calls,
                   ok_transfers, data0>>

Next ==
    \/ \E accounts \in AccountLists, is_signer \in BOOLEAN,
          instruction_data \in Payloads, host_ok \in BOOLEAN :
          Call(accounts, is_signer, instruction_data, host_ok)
    \/ HostCommit
    \/ HostRollback

Spec == Init /\ [][Next]_vars

TypeOK ==
    /\ pc \in {"idle", "returned"}
    /\ calls \in 0..MaxCalls + 1
    /\ call.result \in {"Running", "Ok", "NotEnoughAccountKeys",
                        "MissingRequiredSignature", "IncorrectProgramId",
                        "HostError", "BorshIoError", "Panic"}
    /\ \A k \in Keys : lamports[k] >= 0 /\ call.lamports[k] >= 0

\* ============================================================== properties
Returned == pc = "returned"

HasFour(c) == Len(c.accounts) >= REQUIRED_ACCOUNTS

\* the roles of the account list are as the program requires them
Valid(c) ==
    /\ HasFour(c)
    /\ c.is_signer
    /\ OwnerOf(c.accounts[3]) = program_id
    /\ c.accounts[4] = SYSTEM_PROGRAM_ID

\* the host carries out the transfer the call requests
Accepted(c) ==
    /\ c.host_ok
    /\ OwnerOf(c.accounts[1]) = SYSTEM_PROGRAM_ID
    /\ c.pre_data[c.accounts[1]] = <<>>
    /\ c.pre_lamports[c.accounts[1]] >= 1000000000

ValidatorErrors ==
    {"NotEnoughAccountKeys", "MissingRequiredSignature", "IncorrectProgramId"}

OfKind(events, kind) == SelectSeq(events, LAMBDA e : e.kind = kind)

Tags(events) == [i \in 1..Len(events) |-> events[i].tag]

ChecksRun(c) == Tags(OfKind(c.events, "check"))

ZeroCounter == <<0, 0, 0, 0>>

\* order of two u32 values
U32Leq(a, b) == a.hi < b.hi \/ (a.hi = b.hi /\ a.lo <= b.lo)

\* C1: after k successful calls on a greeted account whose counter started at
\* 0 the stored counter is k, the successful calls have issued k transfer
\* requests between them, and each of them issued the one request of the
\* fixed amount from its payer to its receiver.
C1_CounterCountsSuccessfulCalls ==
    data0["K3"] = ZeroCounter =>
        /\ try_from_slice(data["K3"]) = [ok |-> TRUE, counter |-> U32(ok_calls)]
        /\ ok_transfers = ok_calls
        /\ (Returned /\ call.result = "Ok" =>
              /\ OfKind(call.events, "invoke")
                   = <<InvokeEv(call.accounts[1], call.accounts[2], 1000000000)>>
              /\ call.accounts[3] = "K3"
              /\ try_from_slice(call.data["K3"])
                   = [ok |-> TRUE, counter |-> U32(ok_calls + 1)])

C1_Witness ==
    /\ data0["K3"] = ZeroCounter
    /\ pc = "idle"
    /\ ok_calls = 2
    /\ data["K3"] = <<2, 0, 0, 0>>

C3_WrongSystemAlwaysIncorrectProgramId ==
    Returned /\ HasFour(call) /\ call.accounts[4] # SYSTEM_PROGRAM_ID =>
        call.result = "IncorrectProgramId"

\* C3 (amended): every call whose payer has signed and whose fourth account is
\* not the system program aborts with IncorrectProgramId.
C3_WrongSystemOfSignedCall ==
    Returned /\ HasFour(call) /\ call.is_signer
             /\ call.accounts[4] # SYSTEM_PROGRAM_ID =>
        call.result = "IncorrectProgramId"

C3_Witness ==
    /\ Returned
    /\ HasFour(call)
    /\ call.is_signer
    /\ OwnerOf(call.accounts[3]) = program_id
    /\ call.accounts[4] # SYSTEM_PROGRAM_ID
    /\ call.result = "IncorrectProgramId"
    /\ call.events[Len(call.events)].tag = "bad system"

C5_ValidationPrecedesMutation ==
    Returned /\ (~Valid(call) \/ call.result \in ValidatorErrors) =>
        /\ call.result \in ValidatorErrors
        /\ OfKind(call.events, "invoke") = <<>>
        /\ OfKind(call.events, "write") = <<>>
        /\ call.data = call.pre_data
        /\ call.lamports = call.pre_lamports

C5_Witness ==
    /\ Returned
    /\ HasFour(call)
    /\ call.is_signer
    /\ OwnerOf(call.accounts[3]) = program_id
    /\ call.accounts[4] # SYSTEM_PROGRAM_ID
    /\ Accepted(call)
    /\ try_from_slice(call.pre_data[call.accounts[3]]).ok
    /\ call.result = "IncorrectProgramId"

\* C6: a call that passes validation issues exactly one transfer request, of
\* 1,000,000,000 from the first account to the second; no call issues a
\* second request or a request of another amount, source or destination.
C6_OneFixedTransfer ==
    Returned =>
        LET inv == OfKind(call.events, "invoke")
        IN  /\ Len(inv) <= 1
            /\ \A i \in 1..Len(inv) :
                  inv[i] = InvokeEv(call.accounts[1], call.accounts[2],
                                    1000000000)
            /\ (Valid(call) => Len(inv) = 1)

C6_Witness ==
    /\ Returned
    /\ Valid(call)
    /\ call.accounts[1] # call.accounts[2]
    /\ Len(OfKind(call.events, "invoke")) = 1
    /\ call.result = "Ok"

\* the same call on the same accounts with the same host answer, given the
\* payload p instead
WithPayload(p) ==
    process_instruction(
        NewCall(call.accounts, call.is_signer, p, call.host_ok,
                call.overflow_checks, call.pre_lamports, call.pre_data))

\* C7: whatever the payload, the call returns the same result, requests the
\* same transfer and leaves the same balances and data (the counter).
C7_PayloadIgnored ==
    Returned =>
        \A p \in Payloads :
            /\ WithPayload(p).result = call.result
            /\ OfKind(WithPayload(p).events, "invoke")
                 = OfKind(call.events, "invoke")
            /\ WithPayload(p).data = call.data
            /\ WithPayload(p).lamports = call.lamports

C7_Witness ==
    /\ Returned
    /\ call.instruction_data = <<1, 2>>
    /\ call.result = "Ok"
    /\ call.data["K3"] # call.pre_data["K3"]

\* C8 (as stated): the stored counter never decreases, whatever value it
\* starts from, the u32 maximum included.
C8_CounterNeverDecreases ==
    [][ Len(data["K3"]) = COUNTER_BYTES =>
          /\ Len(data'["K3"]) = COUNTER_BYTES
          /\ U32Leq(u32_from_le(data["K3"]), u32_from_le(data'["K3"])) ]_vars

\* C9 (as stated): a call whose third account's data is not 4 bytes long fails
\* with a deserialization error and leaves that buffer unchanged.
C9_WrongLengthAlwaysDeserializationError ==
    Returned /\ HasFour(call)
             /\ Len(call.pre_data[call.accounts[3]]) # COUNTER_BYTES =>
        /\ call.result = "BorshIoError"
        /\ call.data[call.accounts[3]] = call.pre_data[call.accounts[3]]

\* C9 (amended): a call whose third account's data is not 4 bytes long fails
\* and leaves every data buffer unchanged; it fails with the deserialization
\* error when it passes validation and the host accepts its transfer.  The
\* buffer a successful call leaves is 4 bytes long and deserializes to the
\* counter the call wrote, the counter it read incremented.
C9_WrongLengthFailsRoundTripHolds ==
    Returned /\ HasFour(call) =>
        LET t == call.accounts[3]
            old == call.pre_data[t]
        IN  /\ Len(old) # COUNTER_BYTES =>
                /\ call.result # "Ok"
                /\ call.data = call.pre_data
                /\ (Valid(call) /\ Accepted(call) =>
                        call.result = "BorshIoError")
            /\ call.result = "Ok" =>
                /\ Len(old) = COUNTER_BYTES
                /\ Len(call.data[t]) = COUNTER_BYTES
                /\ try_from_slice(call.data[t])
                     = [ok |-> TRUE,
                        counter |-> Increment(u32_from_le(old),
                                              call.overflow_checks).counter]

C9_Witness ==
    /\ Returned
    /\ Valid(call)
    /\ Accepted(call)
    /\ Len(call.pre_data[call.accounts[3]]) > COUNTER_BYTES
    /\ call.result = "BorshIoError"

\* C10: when the host rejects the transfer the call returns the host's error
\* at once: the request is the last thing it did, the greeted account's data
\* is neither read nor written and no balance or data has changed.
C10_RejectedTransferAborts ==
    Returned /\ Valid(call) /\ ~Accepted(call) =>
        /\ call.result = "HostError"
        /\ call.events[Len(call.events)].kind = "invoke"
        /\ OfKind(call.events, "read") = <<>>
        /\ OfKind(call.events, "write") = <<>>
        /\ call.data = call.pre_data
        /\ call.lamports = call.pre_lamports

C10_Witness ==
    /\ Returned
    /\ Valid(call)
    /\ ~call.host_ok
    /\ call.pre_lamports[call.accounts[1]] >= 1000000000
    /\ try_from_slice(call.pre_data[call.accounts[3]]).ok
    /\ call.result = "HostError"

\* C11 (as stated): a successful call leaves the data buffers of its payer,
\* its receiver and its system account unchanged; it changes the target's
\* data, whose length stays, and the balances of payer and receiver only.
C11_PayerReceiverSystemDataUnchanged ==
    Returned /\ call.result = "Ok" =>
        /\ call.data[call.accounts[1]] = call.pre_data[call.accounts[1]]
        /\ call.data[call.accounts[2]] = call.pre_data[call.accounts[2]]
        /\ call.data[call.accounts[4]] = call.pre_data[call.accounts[4]]
        /\ Len(call.data[call.accounts[3]])
             = Len(call.pre_data[call.accounts[3]])

\* C11 (amended): a successful call leaves the data buffer of every account
\* other than its target unchanged (the receiver's too, unless the receiver
\* is the target itself); the target's buffer keeps its length and is written
\* once; the balances change by the one transfer from payer to receiver.
C11_OnlyTargetDataAndTransferBalances ==
    Returned /\ call.result = "Ok" =>
        LET p == call.accounts[1]
            r == call.accounts[2]
            t == call.accounts[3]
        IN  /\ \A k \in Keys \ {t} : call.data[k] = call.pre_data[k]
            /\ Len(call.data[t]) = Len(call.pre_data[t])
            /\ Len(OfKind(call.events, "write")) = 1
            /\ \A k \in Keys \ {p, r} : call.lamports[k] = call.pre_lamports[k]
            /\ IF p = r
               THEN call.lamports = call.pre_lamports
               ELSE /\ call.lamports[p] = call.pre_lamports[p] - 1000000000
                    /\ call.lamports[r] = call.pre_lamports[r] + 1000000000

C11_Witness ==
    /\ Returned
    /\ call.result = "Ok"
    /\ call.accounts[2] = "K2"
    /\ call.accounts[3] = "K3"
    /\ call.data["K3"] # call.pre_data["K3"]
    /\ call.data["K2"] = <<9>>

\* the messages that name a failed check
FailureMessages == {"bad owner", "bad system"}

\* C12 (as stated): a call that aborts has emitted, as the last thing before
\* it returned, a message that names the check that failed.
C12_EveryAbortLogsItsCheck ==
    Returned /\ call.result # "Ok" =>
        /\ call.events[Len(call.events)].kind = "msg"
        /\ call.events[Len(call.events)].tag \in FailureMessages

\* the call has the shape of a split call: payer, system account, n payees,
\* and a payload that holds a little-endian u64 amount
SplitPayees(c) == Len(c.accounts) - 2

IsSplitCall(c) ==
    /\ Len(c.accounts) >= 2
    /\ c.accounts[2] = SYSTEM_PROGRAM_ID
    /\ c.is_signer
    /\ Len(c.instruction_data) >= 8

SplitAmount(c) == FromLE(SubSeq(c.instruction_data, 1, 8))

\* C13 (as stated): a split call of n payees, 1 <= n <= 10, issues one
\* transfer request per payee, in list order, each of floor(A / n).
C13_SplitSharesPerPayee ==
    Returned /\ IsSplitCall(call) /\ call.host_ok
             /\ SplitPayees(call) >= 1 /\ SplitPayees(call) <= 10 =>
        OfKind(call.events, "invoke")
          = [i \in 1..SplitPayees(call) |->
               InvokeEv(call.accounts[1], call.accounts[i + 2],
                        SplitAmount(call) \div SplitPayees(call))]

\* C14 (as stated): a split call of no payee or of more than 10 payees aborts
\* with NotEnoughAccountKeys and issues no transfer request.
C14_SplitArityRejected ==
    Returned /\ IsSplitCall(call)
             /\ (SplitPayees(call) = 0 \/ SplitPayees(call) > 10) =>
        /\ call.result = "NotEnoughAccountKeys"
        /\ OfKind(call.events, "invoke") = <<>>

CheckOrder == <<"accounts", "signer", "owner", "system">>

LastMessage(c) ==
    LET msgs == OfKind(c.events, "msg") IN msgs[Len(msgs)].tag

FirstOf(events, kind) ==
    IF \E i \in 1..Len(events) : events[i].kind = kind
    THEN CHOOSE i \in 1..Len(events) :
            /\ events[i].kind = kind
            /\ \A j \in 1..(i - 1) : events[j].kind # kind
    ELSE 0

\* C18: a call that fails with the deserialization error has requested its
\* one transfer before it read the record and the host has carried it out:
\* the call's balances differ from those it started with, the call requests
\* no second transfer, and the ledger keeps the old balances only because the
\* host discards the failed call.
C18_TransferBeforeRead ==
    Returned /\ call.result = "BorshIoError" =>
        LET p == call.accounts[1]
            r == call.accounts[2]
        IN  /\ OfKind(call.events, "invoke") = <<InvokeEv(p, r, 1000000000)>>
            /\ Accepted(call)
            /\ FirstOf(call.events, "invoke") > 0
            /\ FirstOf(call.events, "invoke") < FirstOf(call.events, "read")
            /\ call.events[Len(call.events)].kind = "read"
            /\ (p # r =>
                  /\ call.lamports[p] = call.pre_lamports[p] - 1000000000
                  /\ call.lamports[r] = call.pre_lamports[r] + 1000000000)
            /\ lamports = call.pre_lamports

C18_Witness ==
    /\ Returned
    /\ call.result = "BorshIoError"
    /\ call.accounts[1] # call.accounts[2]
    /\ Len(call.pre_data[call.accounts[3]]) = 3
    /\ call.lamports # call.pre_lamports
    /\ lamports = call.pre_lamports

====
